---- MODULE Spec2Model ----
(***************************************************************************)
(* A model of tson's gui package (src/gui/gui.go): the JSON tree editor's  *)
(* load, search (substring filter), graft (AddNode / AddValue) and save    *)
(* operations over a heap of tview.TreeNode objects.                       *)
(*                                                                         *)
(* Text is a sequence of one-character strings, so that case folding,      *)
(* substring search and number parsing are computed, not assumed.          *)
(***************************************************************************)
EXTENDS Integers, Sequences, FiniteSets, TLC

VARIABLES
    heap,        \* the tview.TreeNode objects, addressed by index
    root,        \* TreeView.root: the node g.Tree.GetRoot() returns
    OriginRoot,  \* Tree.OriginRoot
    current,     \* TreeView.currentNode: the node g.Tree.GetCurrentNode() returns
    last,        \* the handler that ran last: its input, the error it returned
                 \* and, for SaveJSON, the value it handed to the JSON encoder
    grafts,      \* successful AddNode / AddValue calls since the last load
    edits        \* label edits since the last load

vars == <<heap, root, OriginRoot, current, last, grafts, edits>>

-----------------------------------------------------------------------------
(* Bounds of the model.                                                    *)

\* Successful grafts (AddNode, AddValue) after a load.
MaxGrafts == 1

\* Label edits after a load.
MaxEdits == 1

-----------------------------------------------------------------------------
(* Text.                                                                   *)

LowerLetters ==
    <<"a","b","c","d","e","f","g","h","i","j","k","l","m",
      "n","o","p","q","r","s","t","u","v","w","x","y","z">>

UpperLetters ==
    <<"A","B","C","D","E","F","G","H","I","J","K","L","M",
      "N","O","P","Q","R","S","T","U","V","W","X","Y","Z">>

DigitChars == <<"0","1","2","3","4","5","6","7","8","9">>

IsDigit(c) == \E d \in 1..Len(DigitChars) : DigitChars[d] = c

DigitVal(c) == (CHOOSE d \in 1..Len(DigitChars) : DigitChars[d] = c) - 1

\* unicode.ToLower on one character
LowerChar(c) ==
    IF \E k \in 1..Len(UpperLetters) : UpperLetters[k] = c
    THEN LowerLetters[CHOOSE k \in 1..Len(UpperLetters) : UpperLetters[k] = c]
    ELSE c

\* strings.ToLower
ToLower(s) == [k \in 1..Len(s) |-> LowerChar(s[k])]

\* strings.Index(s, sub) != -1
Contains(s, sub) ==
    \E k \in 0..(Len(s) - Len(sub)) : SubSeq(s, k + 1, k + Len(sub)) = sub

AllDigits(s) == \A k \in 1..Len(s) : IsDigit(s[k])

RECURSIVE DigitsVal(_)
\* the number a sequence of decimal digits denotes
DigitsVal(s) ==
    IF s = <<>> THEN 0
    ELSE 10 * DigitsVal(SubSeq(s, 1, Len(s) - 1)) + DigitVal(s[Len(s)])

RECURSIVE FormatNat(_)
\* the decimal digits of a natural number
FormatNat(n) ==
    IF n < 10 THEN <<DigitChars[n + 1]>>
    ELSE FormatNat(n \div 10) \o <<DigitChars[(n % 10) + 1]>>

Abs(n) == IF n < 0 THEN 0 - n ELSE n

RECURSIVE Pow10(_)
Pow10(e) == IF e = 0 THEN 1 ELSE 10 * Pow10(e - 1)

-----------------------------------------------------------------------------
(* JSON values.  A decoded document is a JSON value whose object entries   *)
(* are kept in the decoder's iteration order; a number is m / 10^e with no *)
(* trailing zero in its fraction (e = 0 for an integral number).           *)

JNull == [k |-> "null"]
JBool(b) == [k |-> "bool", b |-> b]
JNum(m, e) == [k |-> "number", m |-> m, e |-> e]
JStr(s) == [k |-> "string", s |-> s]
JArr(elems) == [k |-> "array", elems |-> elems]
JObj(entries) == [k |-> "object", entries |-> entries]
Entry(key, val) == [key |-> key, val |-> val]

\* m / 10^e without trailing zeros in the fraction
RECURSIVE NormNum(_, _)
NormNum(m, e) ==
    IF e > 0 /\ m % 10 = 0 THEN NormNum(m \div 10, e - 1) ELSE JNum(m, e)

(* The values makeJSON returns, as Go values of type interface{}.          *)
GoNil == [t |-> "nil"]
GoBool(b) == [t |-> "bool", b |-> b]
GoInt(i) == [t |-> "int", i |-> i]
GoFloat(m, e) == [t |-> "float64", m |-> m, e |-> e]
GoString(s) == [t |-> "string", s |-> s]
\* a []interface{}; isnil tells the nil slice from an empty one
GoSlice(isnil, elems) == [t |-> "slice", isnil |-> isnil, elems |-> elems]
\* a map[string]interface{}
GoMap(f) == [t |-> "map", f |-> f]
\* an index out of range
GoPanic == [t |-> "panic"]

-----------------------------------------------------------------------------
(* Tree nodes: tview.TreeNode with its Reference{JSONType, ValueType}.     *)

Node(text, jt, vt, children) ==
    [text |-> text, JSONType |-> jt, ValueType |-> vt, children |-> children]

\* the content of a slot of the heap that holds no node
Free == Node(<<>>, "Free", "None", <<>>)

FreeSlots(h) == {k \in 1..Len(h) : h[k] = Free}

\* allocate a node in the first free slot; the result is the new heap and
\* the node's address
Alloc(h, n) ==
    LET free == FreeSlots(h)
    IN  IF free = {} THEN [h |-> Append(h, n), id |-> Len(h) + 1]
        ELSE LET k == CHOOSE j \in free : \A i \in free : j <= i
             IN  [h |-> [h EXCEPT ![k] = n], id |-> k]

\* TreeNode.SetChildren
SetChildren(h, id, children) ==
    [h EXCEPT ![id].children = children]

\* TreeNode.AddChild
AddChild(h, id, child) ==
    [h EXCEPT ![id].children = Append(@, child)]

\* TreeNode.SetText
SetText(h, id, text) ==
    [h EXCEPT ![id].text = text]

RECURSIVE Subtree(_, _)
\* a node and everything below it
Subtree(h, id) ==
    {id} \cup UNION {Subtree(h, h[id].children[k]) : k \in 1..Len(h[id].children)}

\* the nodes strictly below a node
Descendants(h, id) ==
    UNION {Subtree(h, h[id].children[k]) : k \in 1..Len(h[id].children)}

RECURSIVE Trim(_)
\* the heap without its trailing free slots
Trim(h) ==
    IF h # <<>> /\ h[Len(h)] = Free THEN Trim(SubSeq(h, 1, Len(h) - 1)) ELSE h

\* the nodes reachable from the tree view
Live(h, r, o, c) == Subtree(h, r) \cup Subtree(h, o) \cup Subtree(h, c)

\* garbage collection: the slots of unreachable nodes become free
Collect(h, r, o, c) ==
    LET live == Live(h, r, o, c)
    IN  Trim([k \in 1..Len(h) |-> IF k \in live THEN h[k] ELSE Free])

-----------------------------------------------------------------------------
(* Scalar Classifier and Tree Builder.                                     *)

\* the text of a number: its canonical decimal rendering
FormatNum(m, e) ==
    LET sign == IF m < 0 THEN <<"-">> ELSE <<>>
        a == Abs(m)
        ip == FormatNat(a \div Pow10(e))
        fd == FormatNat(a % Pow10(e))
        pad == [k \in 1..(e - Len(fd)) |-> "0"]
    IN  IF e = 0 THEN sign \o ip ELSE sign \o ip \o <<".">> \o pad \o fd

\* classify: the scalarType and literal text of a scalar JSON value
Classify(v) ==
    CASE v.k = "null" -> [vt |-> "Null", text |-> <<"n","u","l","l">>]
      [] v.k = "bool" ->
            [vt |-> "Boolean",
             text |-> IF v.b THEN <<"t","r","u","e">> ELSE <<"f","a","l","s","e">>]
      [] v.k = "number" ->
            [vt |-> IF v.e = 0 THEN "Int" ELSE "Float", text |-> FormatNum(v.m, v.e)]
      [] v.k = "string" -> [vt |-> "String", text |-> v.s]

IsScalar(v) == v.k \in {"null", "bool", "number", "string"}

RECURSIVE Build(_, _), BuildEntries(_, _, _, _), BuildElems(_, _, _, _)

\* build(value): the tree of one JSON value
Build(h, v) ==
    IF v.k = "object"
    THEN LET r == BuildEntries(h, v.entries, 1, <<>>)
         IN  Alloc(r.h, Node(<<>>, "Object", "None", r.ids))
    ELSE IF v.k = "array"
    THEN LET r == BuildElems(h, v.elems, 1, <<>>)
         IN  Alloc(r.h, Node(<<>>, "Array", "None", r.ids))
    ELSE LET c == Classify(v)
         IN  Alloc(h, Node(c.text, "Value", c.vt, <<>>))

\* one Key child per property, in iteration order, each over build(value)
BuildEntries(h, entries, k, acc) ==
    IF k > Len(entries) THEN [h |-> h, ids |-> acc]
    ELSE LET b == Build(h, entries[k].val)
             n == Alloc(b.h, Node(entries[k].key, "Key", "None", <<b.id>>))
         IN  BuildEntries(n.h, entries, k + 1, Append(acc, n.id))

\* one child per element, in order
BuildElems(h, elems, k, acc) ==
    IF k > Len(elems) THEN [h |-> h, ids |-> acc]
    ELSE LET b == Build(h, elems[k])
         IN  BuildElems(b.h, elems, k + 1, Append(acc, b.id))

\* Tree.AddNode: buildTopLevelChildren
TreeAddNode(h, v) ==
    IF v.k = "object" THEN BuildEntries(h, v.entries, 1, <<>>)
    ELSE IF v.k = "array" THEN BuildElems(h, v.elems, 1, <<>>)
    ELSE LET b == Build(h, v) IN [h |-> b.h, ids |-> <<b.id>>]

\* NewRootTreeNode: the childless wrapper node of a fragment
NewRootTreeNode(h, v) ==
    IF v.k = "object" THEN Alloc(h, Node(<<>>, "Object", "None", <<>>))
    ELSE IF v.k = "array" THEN Alloc(h, Node(<<>>, "Array", "None", <<>>))
    ELSE Alloc(h, Node(<<>>, "Key", "None", <<>>))

-----------------------------------------------------------------------------
(* strconv.  Each parser returns its value and whether it failed; the      *)
(* value on a syntax error is the zero value of the type.  The texts of    *)
(* the model stay inside the plain decimal grammar [+-]digits[.digits]:    *)
(* exponents, hexadecimal floats, "inf"/"nan" and out-of-range numbers are *)
(* not among them.                                                         *)

IsSign(c) == c \in {"+", "-"}

\* the text after an optional leading sign
Unsigned(s) == IF s # <<>> /\ IsSign(s[1]) THEN SubSeq(s, 2, Len(s)) ELSE s

Negative(s) == s # <<>> /\ s[1] = "-"

\* strconv.Atoi
Atoi(s) ==
    LET d == Unsigned(s)
    IN  IF d # <<>> /\ AllDigits(d)
        THEN [v |-> IF Negative(s) THEN 0 - DigitsVal(d) ELSE DigitsVal(d), err |-> FALSE]
        ELSE [v |-> 0, err |-> TRUE]

\* strconv.ParseFloat(s, 64): the value is m / 10^e
ParseFloat(s) ==
    LET d == Unsigned(s)
        dots == {k \in 1..Len(d) : d[k] = "."}
        dot == IF dots = {} THEN Len(d) + 1 ELSE CHOOSE k \in dots : TRUE
        ip == SubSeq(d, 1, dot - 1)
        fp == SubSeq(d, dot + 1, Len(d))
        ok == /\ Cardinality(dots) <= 1
              /\ AllDigits(ip) /\ AllDigits(fp)
              /\ Len(ip) + Len(fp) > 0
        mag == DigitsVal(ip \o fp)
        n == NormNum(IF Negative(s) THEN 0 - mag ELSE mag, Len(fp))
    IN  IF ok THEN [m |-> n.m, e |-> n.e, err |-> FALSE]
        ELSE [m |-> 0, e |-> 0, err |-> TRUE]

\* strconv.ParseBool
ParseBool(s) ==
    IF s \in {<<"1">>, <<"t">>, <<"T">>, <<"T","R","U","E">>,
              <<"t","r","u","e">>, <<"T","r","u","e">>}
    THEN [v |-> TRUE, err |-> FALSE]
    ELSE IF s \in {<<"0">>, <<"f">>, <<"F">>, <<"F","A","L","S","E">>,
                   <<"f","a","l","s","e">>, <<"F","a","l","s","e">>}
    THEN [v |-> FALSE, err |-> FALSE]
    ELSE [v |-> FALSE, err |-> TRUE]

-----------------------------------------------------------------------------
(* Tree Serializer.                                                        *)

\* Gui.parseValue: the parsers' errors are discarded
parseValue(h, id) ==
    LET v == h[id].text
        vt == h[id].ValueType
    IN  CASE vt = "Int" -> GoInt(Atoi(v).v)
          [] vt = "Float" -> GoFloat(ParseFloat(v).m, ParseFloat(v).e)
          [] vt = "Boolean" -> GoBool(ParseBool(v).v)
          [] vt = "Null" -> GoNil
          [] OTHER -> GoString(v)

RECURSIVE makeJSON_FirstWins(_, _)
\* Gui.makeJSON with the Object case keeping an entry that is already set:
\* the first child of a label wins
makeJSON_FirstWins(h, id) ==
    LET jt == h[id].JSONType
        children == h[id].children
    IN  CASE jt = "Object" ->
               LET texts == {h[children[k]].text : k \in 1..Len(children)}
                   firstOf(t) == CHOOSE k \in 1..Len(children) :
                                    /\ h[children[k]].text = t
                                    /\ \A j \in 1..(k - 1) : h[children[j]].text # t
               IN  GoMap([t \in texts |-> makeJSON_FirstWins(h, children[firstOf(t)])])
          [] jt = "Array" ->
               GoSlice(children = <<>>,
                       [k \in 1..Len(children) |-> makeJSON_FirstWins(h, children[k])])
          [] jt = "Key" ->
               IF children = <<>> THEN GoPanic
               ELSE LET v == children[1]
                    IN  IF h[v].JSONType = "Value" THEN parseValue(h, v)
                        ELSE GoMap([t \in {h[id].text} |-> makeJSON_FirstWins(h, v)])
          [] OTHER -> parseValue(h, id)

RECURSIVE makeJSON(_, _)
\* Gui.makeJSON
makeJSON(h, id) ==
    LET jt == h[id].JSONType
        children == h[id].children
    IN  CASE jt = "Object" ->
               \* i[n.GetText()] = g.makeJSON(n): a later child overwrites an
               \* earlier one of the same text
               LET texts == {h[children[k]].text : k \in 1..Len(children)}
                   lastOf(t) == CHOOSE k \in 1..Len(children) :
                                   /\ h[children[k]].text = t
                                   /\ \A j \in (k + 1)..Len(children) :
                                          h[children[j]].text # t
               IN  GoMap([t \in texts |-> makeJSON(h, children[lastOf(t)])])
          [] jt = "Array" ->
               GoSlice(children = <<>>,
                       [k \in 1..Len(children) |-> makeJSON(h, children[k])])
          [] jt = "Key" ->
               IF children = <<>> THEN GoPanic
               ELSE LET v == children[1]
                    IN  IF h[v].JSONType = "Value" THEN parseValue(h, v)
                        ELSE GoMap([t \in {h[id].text} |-> makeJSON(h, v)])
          [] OTHER -> parseValue(h, id)

-----------------------------------------------------------------------------
(* Substring Filter.                                                       *)

\* the test of walk: strings.Index(strings.ToLower(child.GetText()), text) != -1
Matches(h, id, text) == Contains(ToLower(h[id].text), text)

RECURSIVE walk(_, _, _)
\* Gui.walk
walk(h, nodes, text) ==
    IF nodes = <<>> THEN <<>>
    ELSE LET child == nodes[1]
             here == IF Matches(h, child, text) THEN <<child>>
                     ELSE walk(h, h[child].children, text)
         IN  here \o walk(h, SubSeq(nodes, 2, Len(nodes)), text)

-----------------------------------------------------------------------------
(* Inputs.                                                                 *)

\* the text of a form field or the content of a file: its length, whether
\* json.Unmarshal accepts it and, if so, the value it decodes to
Text(len, valid, value) == [len |-> len, valid |-> valid, value |-> value]

EmptyText == Text(0, FALSE, JNull)
InvalidText == Text(8, FALSE, JNull)
ValidText(v) == Text(1, TRUE, v)

\* {"a":1,"Ab":{"c":2}}
DocNested ==
    JObj(<<Entry(<<"a">>, JNum(1, 0)),
           Entry(<<"A","b">>, JObj(<<Entry(<<"c">>, JNum(2, 0))>>))>>)

\* ["ac"]
DocArray == JArr(<<JStr(<<"a","c">>)>>)

\* {"a":1}
DocSmall == JObj(<<Entry(<<"a">>, JNum(1, 0))>>)

\* the documents the editor is started on or loads when it is grafted onto
Docs == <<DocSmall>>

\* the documents the editor is started on or loads when it is filtered
FilterDocs == <<DocNested, DocArray>>

\* {"a":3,"y":2}
FragObject == JObj(<<Entry(<<"a">>, JNum(3, 0)), Entry(<<"y">>, JNum(2, 0))>>)

\* 7
FragScalar == JNum(7, 0)

\* the fragments typed into the add forms
Fragments == <<FragObject, FragScalar>>

\* the texts typed into the search field
Queries == << <<>>, <<"a">>, <<"c">>, <<"A">>, <<"z">> >>

\* the texts typed into the search field of a tree that is grafted onto
FewQueries == << <<>>, <<"1">> >>

\* the files of the given documents, an empty file and one that is not JSON
Files(docs) ==
    <<EmptyText, InvalidText>> \o [k \in 1..Len(docs) |-> ValidText(docs[k])]

FormTexts ==
    <<EmptyText, InvalidText>> \o [k \in 1..Len(Fragments) |-> ValidText(Fragments[k])]

-----------------------------------------------------------------------------
(* Errors.                                                                 *)

NoErr == "nil"
ErrEmptyJSON == "empty json"
ErrDecode == "json: syntax error"

\* UnMarshalJSON without its test of len(b) == 0: the decoder rejects the
\* empty input
UnMarshalJSON_NoEmptyCheck(in) ==
    IF ~in.valid THEN [i |-> JNull, err |-> ErrDecode]
    ELSE [i |-> in.value, err |-> NoErr]

\* UnMarshalJSON
UnMarshalJSON(in) ==
    IF in.len = 0 THEN [i |-> JNull, err |-> ErrEmptyJSON]
    ELSE IF ~in.valid THEN [i |-> JNull, err |-> ErrDecode]
    ELSE [i |-> in.value, err |-> NoErr]

\* what a handler leaves in `last`
Ran(op, arg, err, out) == [op |-> op, arg |-> arg, err |-> err, out |-> out]

-----------------------------------------------------------------------------
(* The operations.                                                         *)

\* Tree.UpdateView: the tree of a document replaces the old one; the
\* Origin Snapshot is a copy of the new root node
UpdateView(v) ==
    LET b == Build(<<>>, v)
        o == Alloc(b.h, b.h[b.id])
    IN  [heap |-> o.h, root |-> b.id, OriginRoot |-> o.id, current |-> b.id]

\* the state after Gui.Run on a document
Started(doc) ==
    LET u == UpdateView(doc)
    IN  /\ heap = u.heap
        /\ root = u.root
        /\ OriginRoot = u.OriginRoot
        /\ current = u.current
        /\ last = Ran("Run", ValidText(doc), NoErr, GoNil)
        /\ grafts = 0
        /\ edits = 0

Init == \E d \in 1..Len(Docs) : Started(Docs[d])

\* Gui.LoadJSON: the doneFunc of the form, on a file that opens
LoadJSON(files) ==
    \E c \in 1..Len(files) :
        LET in == files[c]
            r == UnMarshalJSON(in)
            err == r.err
            u == UpdateView(r.i)
        IN  /\ last' = Ran("LoadJSON", in, err, GoNil)
            /\ IF err # NoErr
               THEN UNCHANGED <<heap, root, OriginRoot, current, grafts, edits>>
               ELSE /\ heap' = u.heap
                    /\ root' = u.root
                    /\ OriginRoot' = u.OriginRoot
                    /\ current' = u.current
                    /\ grafts' = 0
                    /\ edits' = 0

\* Gui.Search with root := g.Tree.OriginRoot, the snapshot itself and not a
\* copy of it
Search_InPlace(queries) ==
    \E q \in 1..Len(queries) :
        LET text == queries[q]
            h2 == IF text # <<>>
                  THEN SetChildren(heap, OriginRoot,
                                   walk(heap, heap[OriginRoot].children, text))
                  ELSE heap
        IN  /\ root' = OriginRoot
            /\ heap' = Collect(h2, OriginRoot, OriginRoot, current)
            /\ last' = Ran("Search", text, NoErr, GoNil)
            /\ UNCHANGED <<OriginRoot, current, grafts, edits>>

\* Gui.Search with root := g.Tree.GetRoot(), the node on display, for the
\* copy of the snapshot: each query filters what the last one left
Search_FromDisplay(queries) ==
    \E q \in 1..Len(queries) :
        LET text == queries[q]
            h2 == IF text # <<>>
                  THEN SetChildren(heap, root, walk(heap, heap[root].children, text))
                  ELSE heap
        IN  /\ root' = root
            /\ heap' = Collect(h2, root, OriginRoot, current)
            /\ last' = Ran("Search", text, NoErr, GoNil)
            /\ UNCHANGED <<OriginRoot, current, grafts, edits>>

\* Gui.Search: the changed func of the search field
Search(queries) ==
    \E q \in 1..Len(queries) :
        LET text == queries[q]
            \* root := *g.Tree.OriginRoot; g.Tree.SetRoot(&root): the old root
            \* is unreachable once SetRoot ran, unless it is the snapshot or
            \* the selection, and the copy may take its place in memory
            h0 == Collect(heap, OriginRoot, OriginRoot, current)
            copy == Alloc(h0, h0[OriginRoot])
            h2 == IF text # <<>>
                  THEN SetChildren(copy.h, copy.id,
                                   walk(copy.h, copy.h[copy.id].children, text))
                  ELSE copy.h
        IN  /\ root' = copy.id
            /\ heap' = Collect(h2, copy.id, OriginRoot, current)
            /\ last' = Ran("Search", text, NoErr, GoNil)
            /\ UNCHANGED <<OriginRoot, current, grafts, edits>>

\* Gui.AddNode: the doneFunc of the form
AddNode ==
    \E f \in 1..Len(FormTexts) :
        LET j == FormTexts[f]
            r == UnMarshalJSON(j)
            err == IF j.len = 0 THEN ErrEmptyJSON ELSE r.err
            newNode == NewRootTreeNode(heap, r.i)
            kids == TreeAddNode(newNode.h, r.i)
            h2 == SetChildren(kids.h, newNode.id, kids.ids)
            h3 == AddChild(h2, current, newNode.id)
        IN  /\ last' = Ran("AddNode", j, err, GoNil)
            /\ IF err # NoErr
               THEN UNCHANGED <<heap, root, OriginRoot, current, grafts, edits>>
               ELSE /\ grafts < MaxGrafts
                    /\ grafts' = grafts + 1
                    /\ OriginRoot' = root
                    /\ heap' = Collect(h3, root, root, current)
                    /\ UNCHANGED <<root, current, edits>>

\* Gui.AddValue with current.SetChildren(nodes) for the loop of AddChild
AddValue_SetChildren ==
    \E f \in 1..Len(FormTexts) :
        LET j == FormTexts[f]
            r == UnMarshalJSON(j)
            err == IF j.len = 0 THEN ErrEmptyJSON ELSE r.err
            kids == TreeAddNode(heap, r.i)
            h2 == SetChildren(kids.h, current, kids.ids)
        IN  /\ last' = Ran("AddValue", j, err, GoNil)
            /\ IF err # NoErr
               THEN UNCHANGED <<heap, root, OriginRoot, current, grafts, edits>>
               ELSE /\ grafts < MaxGrafts
                    /\ grafts' = grafts + 1
                    /\ OriginRoot' = root
                    /\ heap' = Collect(h2, root, root, current)
                    /\ UNCHANGED <<root, current, edits>>

\* Gui.AddValue: the doneFunc of the form
AddValue ==
    \E f \in 1..Len(FormTexts) :
        LET j == FormTexts[f]
            r == UnMarshalJSON(j)
            err == IF j.len = 0 THEN ErrEmptyJSON ELSE r.err
            kids == TreeAddNode(heap, r.i)
            \* for _, n := range g.Tree.AddNode(i) { current.AddChild(n) }
            h2 == [kids.h EXCEPT ![current].children = @ \o kids.ids]
        IN  /\ last' = Ran("AddValue", j, err, GoNil)
            /\ IF err # NoErr
               THEN UNCHANGED <<heap, root, OriginRoot, current, grafts, edits>>
               ELSE /\ grafts < MaxGrafts
                    /\ grafts' = grafts + 1
                    /\ OriginRoot' = root
                    /\ heap' = Collect(h2, root, root, current)
                    /\ UNCHANGED <<root, current, edits>>

\* Gui.SaveJSON with g.makeJSON(g.Tree.OriginRoot): the snapshot is written,
\* not the tree on display
SaveJSON_Snapshot ==
    /\ last' = Ran("SaveJSON", GoNil, NoErr, makeJSON(heap, OriginRoot))
    /\ UNCHANGED <<heap, root, OriginRoot, current, grafts, edits>>

\* Gui.SaveJSON: the doneFunc of the form, on a file that can be written
SaveJSON ==
    /\ last' = Ran("SaveJSON", GoNil, NoErr, makeJSON(heap, root))
    /\ UNCHANGED <<heap, root, OriginRoot, current, grafts, edits>>

\* the user moves the selection to a node of the displayed tree; only a
\* graft reads the selection, so it moves only while a graft can follow
SelectNode ==
    \E n \in Subtree(heap, root) :
        /\ grafts < MaxGrafts
        /\ n # current
        /\ current' = n
        /\ heap' = Collect(heap, root, OriginRoot, n)
        /\ last' = Ran("SelectNode", GoNil, NoErr, GoNil)
        /\ UNCHANGED <<root, OriginRoot, grafts, edits>>

Next ==
    \/ LoadJSON(Files(Docs))
    \/ Search(FewQueries)
    \/ AddNode
    \/ AddValue
    \/ SaveJSON
    \/ SelectNode

Spec == Init /\ [][Next]_vars

-----------------------------------------------------------------------------
(* Loading, filtering and saving: the editor on larger documents, with     *)
(* more queries and no graft.                                              *)

InitFilter == \E d \in 1..Len(FilterDocs) : Started(FilterDocs[d])

NextFilter ==
    \/ LoadJSON(Files(FilterDocs))
    \/ Search(Queries)
    \/ SaveJSON
    \/ SelectNode

SpecFilter == InitFilter /\ [][NextFilter]_vars

-----------------------------------------------------------------------------
(* Editing and saving: the editor started on one of a wider range of       *)
(* documents, the user editing labels and saving.                          *)

\* 7, -5, 1.5, "a", true, null
DocInt == JNum(7, 0)
DocNegative == JNum(0 - 5, 0)
DocFloat == JNum(15, 1)
DocString == JStr(<<"a">>)
DocTrue == JBool(TRUE)
DocNull == JNull

\* {"a":1,"b":"x"}
DocFlat == JObj(<<Entry(<<"a">>, JNum(1, 0)), Entry(<<"b">>, JStr(<<"x">>))>>)

\* [1,1.5,false,null]
DocScalars == JArr(<<JNum(1, 0), JNum(15, 1), JBool(FALSE), JNull>>)

\* [[1],[2,3]]
DocArrays == JArr(<<JArr(<<JNum(1, 0)>>), JArr(<<JNum(2, 0), JNum(3, 0)>>)>>)

\* [{"a":1},{}]
DocObjects == JArr(<<JObj(<<Entry(<<"a">>, JNum(1, 0))>>), JObj(<<>>)>>)

\* [] and {}
DocEmptyArray == JArr(<<>>)
DocEmptyObject == JObj(<<>>)

\* {"a":{"b":1}}
DocKeyObject == JObj(<<Entry(<<"a">>, JObj(<<Entry(<<"b">>, JNum(1, 0))>>))>>)

\* {"a":[1]}
DocKeyArray == JObj(<<Entry(<<"a">>, JArr(<<JNum(1, 0)>>))>>)

EditDocs ==
    <<DocInt, DocNegative, DocFloat, DocString, DocTrue, DocNull, DocFlat,
      DocScalars, DocArrays, DocObjects, DocEmptyArray, DocEmptyObject,
      DocKeyObject, DocKeyArray>>

\* the texts the user types over a label: x, 1.5, t, 42
EditTexts == << <<"x">>, <<"1",".","5">>, <<"t">>, <<"4","2">> >>

InitEdit == \E d \in 1..Len(EditDocs) : Started(EditDocs[d])

\* the user replaces the label of the selected node
EditText ==
    \E t \in 1..Len(EditTexts) :
        /\ edits < MaxEdits
        /\ edits' = edits + 1
        /\ heap' = SetText(heap, current, EditTexts[t])
        /\ last' = Ran("EditText", EditTexts[t], NoErr, GoNil)
        /\ UNCHANGED <<root, OriginRoot, current, grafts>>

NextEdit == SelectNode \/ EditText \/ SaveJSON

SpecEdit == InitEdit /\ [][NextEdit]_vars

-----------------------------------------------------------------------------
(* Grafting and saving: the editor started on a document with an object    *)
(* and an array, the user selecting nodes, grafting and saving.            *)

\* {"a":[7]}
DocKeySeven == JObj(<<Entry(<<"a">>, JArr(<<JNum(7, 0)>>))>>)

InitGraft == Started(DocKeySeven)

NextGraft == SelectNode \/ AddNode \/ AddValue \/ SaveJSON

SpecGraft == InitGraft /\ [][NextGraft]_vars

-----------------------------------------------------------------------------
(* What the claims speak of.                                               *)

RECURSIVE TreeOf(_, _)
\* the tree below a node, by value
TreeOf(h, id) ==
    [text |-> h[id].text, JSONType |-> h[id].JSONType, ValueType |-> h[id].ValueType,
     children |-> [k \in 1..Len(h[id].children) |-> TreeOf(h, h[id].children[k])]]

RECURSIVE PreOrder(_, _)
\* the nodes of a forest in document order
PreOrder(h, ids) ==
    IF ids = <<>> THEN <<>>
    ELSE <<ids[1]>> \o PreOrder(h, h[ids[1]].children)
                    \o PreOrder(h, SubSeq(ids, 2, Len(ids)))

Range(s) == {s[k] : k \in 1..Len(s)}

\* the nodes of the heap that hold a node
Allocated(h) == {k \in 1..Len(h) : h[k] # Free}

\* the nodes an operation created
Created == Allocated(heap') \ Allocated(heap)

\* the last handler was a graft that succeeded
Grafted(l) == l.op \in {"AddNode", "AddValue"} /\ l.err = NoErr

\* the last handler ran on an input that is empty or not JSON
BadInput(l) ==
    /\ l.op \in {"LoadJSON", "AddNode", "AddValue"}
    /\ (l.arg.len = 0 \/ ~l.arg.valid)

\* a JSON value as the encoder writes it: objects as mappings, numbers
\* without trailing zeros
RECURSIVE Canon(_)
Canon(v) ==
    CASE v.k = "number" -> NormNum(v.m, v.e)
      [] v.k = "array" -> JArr([k \in 1..Len(v.elems) |-> Canon(v.elems[k])])
      [] v.k = "object" ->
            LET keys == {v.entries[k].key : k \in 1..Len(v.entries)}
                lastOf(key) == CHOOSE k \in 1..Len(v.entries) :
                                   /\ v.entries[k].key = key
                                   /\ \A j \in (k + 1)..Len(v.entries) :
                                          v.entries[j].key # key
            IN  [k |-> "object", f |-> [key \in keys |-> Canon(v.entries[lastOf(key)].val)]]
      [] OTHER -> v

\* the JSON value json.Encoder writes for a Go value
RECURSIVE Encoded(_)
Encoded(g) ==
    CASE g.t = "nil" -> JNull
      [] g.t = "bool" -> JBool(g.b)
      [] g.t = "int" -> JNum(g.i, 0)
      [] g.t = "float64" -> NormNum(g.m, g.e)
      [] g.t = "string" -> JStr(g.s)
      [] g.t = "slice" ->
            IF g.isnil THEN JNull
            ELSE JArr([k \in 1..Len(g.elems) |-> Encoded(g.elems[k])])
      [] g.t = "map" -> [k |-> "object", f |-> [key \in DOMAIN g.f |-> Encoded(g.f[key])]]
      [] OTHER -> [k |-> "panic"]

-----------------------------------------------------------------------------
(* The claims.                                                             *)

\* C1: a load or graft whose input is empty fails with the empty-input
\* error, one whose input is not JSON fails with a decode error, and either
\* way the display root, the Origin Snapshot and every node are as before.
C1_BadInputLeavesTree ==
    [][BadInput(last') =>
          /\ last'.err = IF last'.arg.len = 0 THEN ErrEmptyJSON ELSE ErrDecode
          /\ root' = root
          /\ OriginRoot' = OriginRoot
          /\ heap' = heap]_vars

\* C1, its case: an add form submitted with text that is not JSON, on a
\* tree that was grafted onto and is shown filtered
C1_Witness ==
    /\ last.op = "AddValue"
    /\ last.err = ErrDecode
    /\ grafts > 0
    /\ root # OriginRoot

\* C2: no filter call changes the Origin Snapshot, and a filter call with
\* the empty query shows a tree deep-equal to it.
C2_EmptyQueryRestores ==
    [][last'.op = "Search" =>
          /\ TreeOf(heap', OriginRoot') = TreeOf(heap, OriginRoot)
          /\ last'.arg = <<>> => TreeOf(heap', root') = TreeOf(heap, OriginRoot)]_vars

\* C2, its case: the empty query typed while a filter hides part of a tree
\* that has nested nodes
C2_Witness ==
    /\ last.op = "Search"
    /\ last.arg = <<>>
    /\ Len(heap[root].children) > 1
    /\ Descendants(heap, root) # Range(heap[root].children)

\* C3: after a successful graft the Origin Snapshot holds every node it
\* held before and the grafted nodes.
C3_GraftKeepsSnapshot ==
    [][Grafted(last') =>
          (Descendants(heap, OriginRoot) \cup Created)
              \subseteq Descendants(heap', OriginRoot')]_vars

\* C4: a Key node over an Object or Array node serializes to what that
\* node serializes to.
C4_KeyUnwraps ==
    \A n \in Subtree(heap, root) :
        (/\ heap[n].JSONType = "Key"
         /\ Len(heap[n].children) = 1
         /\ heap[heap[n].children[1]].JSONType # "Value")
        => makeJSON(heap, n) = makeJSON(heap, heap[n].children[1])

\* the text of a typed leaf does not parse as its type
Unparsable(h, n) ==
    \/ h[n].ValueType = "Int" /\ Atoi(h[n].text).err
    \/ h[n].ValueType = "Float" /\ ParseFloat(h[n].text).err
    \/ h[n].ValueType = "Boolean" /\ ParseBool(h[n].text).err

\* C5: a Value leaf of type Int, Float or Boolean whose text does not parse
\* as that type serializes to its text, as a string.
C5_UnparsableIsText ==
    \A n \in Subtree(heap, root) :
        (heap[n].JSONType = "Value" /\ Unparsable(heap, n))
        => parseValue(heap, n) = GoString(heap[n].text)

\* C6: after a filter call with a non-empty query, a top-level node of the
\* snapshot is shown exactly when its case-folded label contains the
\* case-folded query.
C6_CaseInsensitive ==
    (last.op = "Search" /\ last.arg # <<>>) =>
        \A k \in 1..Len(heap[OriginRoot].children) :
            LET n == heap[OriginRoot].children[k]
            IN  n \in Range(heap[root].children)
                    <=> Contains(ToLower(heap[n].text), ToLower(last.arg))

\* the nodes below top whose case-folded label contains the case-folded
\* query and that lie below no other such node, in document order
TopmostMatching(h, top, query) ==
    LET match(n) == Contains(ToLower(h[n].text), ToLower(query))
        topmost(n) ==
            /\ match(n)
            /\ \A a \in Descendants(h, top) :
                   (a # n /\ n \in Descendants(h, a)) => ~match(a)
    IN  SelectSeq(PreOrder(h, h[top].children), topmost)

\* C7: a filter call with a non-empty query shows exactly the topmost
\* matching nodes of the snapshot, in document order, each with its subtree
\* as it was, and returns no error.
C7_TopmostMatches ==
    [][(last'.op = "Search" /\ last'.arg # <<>>) =>
          /\ heap'[root'].children = TopmostMatching(heap, OriginRoot, last'.arg)
          /\ \A n \in Range(heap'[root'].children) : TreeOf(heap', n) = TreeOf(heap, n)
          /\ last'.err = NoErr]_vars

RECURSIVE KeyOverComposite(_)
\* the value holds an object one of whose property values is an object or
\* an array
KeyOverComposite(v) ==
    \/ /\ v.k = "object"
       /\ \E k \in 1..Len(v.entries) :
              \/ ~IsScalar(v.entries[k].val)
              \/ KeyOverComposite(v.entries[k].val)
    \/ /\ v.k = "array"
       /\ \E k \in 1..Len(v.elems) : KeyOverComposite(v.elems[k])

\* the editor was just started on, or just loaded, a document
Loaded(l) == l.op \in {"Run", "LoadJSON"} /\ l.err = NoErr

\* C8: saving the tree built from a value that holds no object with an
\* object or array as a property value writes that value.
C8_RoundTrip ==
    [][(Loaded(last) /\ last'.op = "SaveJSON" /\ ~KeyOverComposite(last.arg.value))
          => Encoded(last'.out) = Canon(last.arg.value)]_vars

\* the number of top-level entries of a fragment
TopLevelCount(v) ==
    IF v.k = "object" THEN Len(v.entries)
    ELSE IF v.k = "array" THEN Len(v.elems)
    ELSE 1

\* the node n is the tree of the k-th top-level entry of the fragment v
IsEntry(h, n, v, k) ==
    IF v.k = "object"
    THEN /\ h[n].JSONType = "Key"
         /\ h[n].text = v.entries[k].key
    ELSE h[n].JSONType =
            LET e == IF v.k = "array" THEN v.elems[k] ELSE v
            IN  IF e.k = "object" THEN "Object"
                ELSE IF e.k = "array" THEN "Array" ELSE "Value"

\* the nodes ids are new and are the trees of the fragment's top-level
\* entries, in order
AreEntries(h, ids, v) ==
    /\ Len(ids) = TopLevelCount(v)
    /\ \A k \in 1..Len(ids) : ids[k] \in Created /\ IsEntry(h, ids[k], v, k)

\* C9: AddValue appends one new child of the selection per top-level entry
\* of the fragment, in order, after the children it had; AddNode appends one
\* new child, whose children are those entries.  The earlier children and
\* their subtrees stay as they were.
C9_GraftPlacement ==
    [][Grafted(last') =>
          LET before == heap[current].children
              after == heap'[current].children
              added == SubSeq(after, Len(before) + 1, Len(after))
              v == last'.arg.value
          IN  /\ current' = current
              /\ SubSeq(after, 1, Len(before)) = before
              /\ \A k \in 1..Len(before) :
                     TreeOf(heap', before[k]) = TreeOf(heap, before[k])
              /\ last'.op = "AddValue" => AreEntries(heap', added, v)
              /\ last'.op = "AddNode" =>
                     /\ Len(added) = 1
                     /\ added[1] \in Created
                     /\ AreEntries(heap', heap'[added[1]].children, v)]_vars

\* C9, its case: an object of two properties grafted as siblings under a
\* node that had a child
C9_Witness ==
    /\ last.op = "AddValue"
    /\ last.err = NoErr
    /\ last.arg.value.k = "object"
    /\ Len(last.arg.value.entries) = 2
    /\ Len(heap[current].children) > 2

\* the structural invariants of the tree below a node
WellFormed(h, top) ==
    \A n \in Subtree(h, top) :
        /\ h[n].JSONType = "Key" => Len(h[n].children) = 1
        /\ h[n].JSONType = "Value" => h[n].children = <<>>
        /\ h[n].JSONType = "Object" =>
               \A k \in 1..Len(h[n].children) : h[h[n].children[k]].JSONType = "Key"

\* C10: a graft onto a tree that meets the structural invariants leaves a
\* tree that meets them.
C10_GraftKeepsWellFormed ==
    [][(Grafted(last') /\ WellFormed(heap, root)) => WellFormed(heap', root')]_vars

\* the Origin Snapshot, by value, right after the document is loaded
FreshSnapshot(doc) ==
    LET u == UpdateView(doc)
    IN  TreeOf(u.heap, u.OriginRoot)

\* the display, by value, of a filter call with the query text as the first
\* operation on the freshly loaded document
FreshDisplay(doc, text) ==
    LET u == UpdateView(doc)
        copy == Alloc(u.heap, u.heap[u.OriginRoot])
        h2 == IF text # <<>>
              THEN SetChildren(copy.h, copy.id,
                               walk(copy.h, copy.h[copy.id].children, text))
              ELSE copy.h
    IN  TreeOf(h2, copy.id)

\* C11: filters are not cumulative.  Whatever was on display before, a
\* filter call with the query q on the snapshot of a loaded document shows
\* what it shows as the first call on that document, freshly loaded.
C11_NotCumulative ==
    [][last'.op = "Search" =>
          \A d \in 1..Len(FilterDocs) :
              FreshSnapshot(FilterDocs[d]) = TreeOf(heap, OriginRoot)
                  => TreeOf(heap', root') = FreshDisplay(FilterDocs[d], last'.arg)]_vars

\* C11, its case: a query that shows a nested node only, with the snapshot
\* still the whole document of two properties
C11_Witness ==
    /\ last.op = "Search"
    /\ last.arg = <<"c">>
    /\ Len(heap[root].children) = 1
    /\ heap[root].children[1] \notin Range(heap[OriginRoot].children)
    /\ FreshSnapshot(DocNested) = TreeOf(heap, OriginRoot)

\* C12: serialization and filtering are read-only on nodes.  A save changes
\* no node.  A filter call leaves every node of the Origin Snapshot with its
\* label, tags and child list, creates no node but the display root, a copy
\* of the snapshot's root node, drops none but the display root it replaces
\* and shows only nodes of the snapshot; what differs is the child list of
\* the display root.
C12_ReadOnly ==
    [][/\ last'.op = "SaveJSON" =>
              /\ heap' = heap
              /\ root' = root
              /\ OriginRoot' = OriginRoot
       /\ last'.op = "Search" =>
              /\ OriginRoot' = OriginRoot
              /\ \A n \in Subtree(heap, OriginRoot) :
                     n \in Allocated(heap') /\ heap'[n] = heap[n]
              /\ Created \subseteq {root'}
              /\ (Allocated(heap) \ Allocated(heap')) \subseteq {root}
              /\ Descendants(heap', root') \subseteq Descendants(heap, OriginRoot)
              /\ heap'[root'] =
                     [heap[OriginRoot] EXCEPT !.children = heap'[root'].children]]_vars

\* C12, its case: a filter call that hides nodes of a snapshot taken after
\* a graft, the display root being a copy and not the snapshot's root
C12_Witness ==
    /\ last.op = "Search"
    /\ last.arg # <<>>
    /\ grafts > 0
    /\ root # OriginRoot
    /\ heap[root].children # heap[OriginRoot].children

\* what the nodes a filter call with the query text selects from the
\* snapshot serialize to, under a copy of the snapshot's root node
SelectionJSON(h, o, text) ==
    LET sel == Alloc(h, [h[o] EXCEPT !.children = walk(h, h[o].children, text)])
    IN  makeJSON(sel.h, sel.id)

\* the last handler was a filter call with a non-empty query
Filtered(l) == l.op = "Search" /\ l.arg # <<>>

\* C13, as the claim states it: a save right after a filter call with a
\* non-empty query writes the serialization of the nodes the filter
\* selected, and that is not the serialization of the full document.
C13_FilteredSaveDiffers ==
    [][(Filtered(last) /\ last'.op = "SaveJSON") =>
          /\ last'.out = SelectionJSON(heap, OriginRoot, last.arg)
          /\ last'.out # makeJSON(heap, OriginRoot)]_vars

\* C13, amended: a save right after a filter call with a non-empty query
\* writes the serialization of the nodes the filter selected; a save writes
\* the serialization of the full document whenever the display root has the
\* child list of the snapshot, and right after a filter call with a
\* non-empty query on a tree as loaded it writes it only then, that is
\* when every top-level node of the snapshot matches the query.
C13_SaveWritesDisplay ==
    [][last'.op = "SaveJSON" =>
          /\ Filtered(last) => last'.out = SelectionJSON(heap, OriginRoot, last.arg)
          /\ heap[root].children = heap[OriginRoot].children
                 => last'.out = makeJSON(heap, OriginRoot)
          /\ (Filtered(last) /\ last'.out = makeJSON(heap, OriginRoot))
                 => heap[root].children = heap[OriginRoot].children]_vars

\* C13, its case: a save of a display that shows a nested node only and
\* writes something else than the full document
C13_Witness ==
    /\ last.op = "SaveJSON"
    /\ Len(heap[root].children) = 1
    /\ heap[root].children[1] \notin Range(heap[OriginRoot].children)
    /\ last.out # makeJSON(heap, OriginRoot)
    /\ last.out = makeJSON(heap, root)

\* the labels of the children of a node
Labels(h, n) == {h[h[n].children[k]].text : k \in 1..Len(h[n].children)}

\* the k-th child of n is the last of its label among the children of n
LastOfLabel(h, n, k) ==
    \A j \in (k + 1)..Len(h[n].children) :
        h[h[n].children[j]].text # h[h[n].children[k]].text

\* C14: an Object node serializes to an object with one entry per distinct
\* child label, holding the serialization of the last child of that label;
\* an Array node serializes to the serializations of all its children, in
\* child order.
C14_LastChildWins ==
    \A n \in Subtree(heap, root) :
        LET ch == heap[n].children
            out == makeJSON(heap, n)
        IN  /\ heap[n].JSONType = "Object" =>
                   /\ out.t = "map"
                   /\ DOMAIN out.f = Labels(heap, n)
                   /\ \A k \in 1..Len(ch) :
                          LastOfLabel(heap, n, k)
                              => out.f[heap[ch[k]].text] = makeJSON(heap, ch[k])
            /\ heap[n].JSONType = "Array" =>
                   /\ out.t = "slice"
                   /\ Len(out.elems) = Len(ch)
                   /\ \A k \in 1..Len(ch) : out.elems[k] = makeJSON(heap, ch[k])

\* C14, its case: {"a":3,"y":2} grafted as siblings of the key a of
\* {"a":[7]} and saved: three children, two entries written, a holding 3
C14_Witness ==
    /\ last.op = "SaveJSON"
    /\ heap[root].JSONType = "Object"
    /\ Len(heap[root].children) = 3
    /\ Cardinality(Labels(heap, root)) = 2
    /\ last.out = GoMap([t \in {<<"a">>, <<"y">>} |->
                            IF t = <<"a">> THEN GoInt(3) ELSE GoInt(2)])

====
